---- MODULE Spec2Model ----
(***************************************************************************)
(* The HTTP -> MCP (JSON-RPC) transport bridge of fantasy-pl-mcp.          *)
(*                                                                         *)
(* The repository ships several near-duplicate servers, each with its own  *)
(* BaseHTTPRequestHandler subclass:                                        *)
(*   WorkingMCPHandler      working_cloud_run_server.py                    *)
(*   MCPTransportHandler    mcp_http_server.py                             *)
(*   CloudRunMCPHandler     cloud_run_server.py                            *)
(*   SimpleCloudRunHandler  simple_cloud_run_server.py                     *)
(*   MCPHandler             server.py                                      *)
(*   MinimalHandler         minimal_cloud_run_server.py                    *)
(* A process runs exactly one of them.  The model serves one connection at *)
(* a time, as http.server.HTTPServer does (it is not a threading server).  *)
(*                                                                         *)
(* Encoding of Python / JSON values                                        *)
(*   scalar        [type |-> "null"|"str"|"int", text |-> <string>]        *)
(*   URI string    [type |-> ..., segs |-> s.split("/")]: a string is kept *)
(*                 as the list of its "/"-separated segments, which is a   *)
(*                 bijection, so that startswith / endswith / split are    *)
(*                 computed and not tabulated                              *)
(*   dict          a function; an absent key is absent from its DOMAIN     *)
(*   f-string      the tuple of its pieces                                 *)
(*   call result   [tag |-> "return", val], [tag |-> "raise", exc] or      *)
(*                 [tag |-> "hang"] (the call never returns), with the     *)
(*                 bridge state w it leaves behind                         *)
(***************************************************************************)
EXTENDS Integers, Sequences, FiniteSets, TLC

VARIABLES
    handler_class,  \* the BaseHTTPRequestHandler subclass this process serves with
    mcp_available,  \* the import of the domain server succeeded
    event_loop,     \* WorkingMCPHandler._event_loop: "None" or "created"
    pc,             \* "idle", "received", "responded", "blocked", "crashed",
                    \* "streaming", "sleeping"
    request,        \* the HTTP request being served
    conn,           \* [buf |-> _headers_buffer, wire |-> what was written to wfile]
    entered,        \* the dispatcher was called for this request
    envelopes,      \* the envelopes the dispatcher returned for this request
    bridge_calls,   \* the coroutines submitted through run_async for this request,
                    \* each with the way it ended
    ping_count,     \* the local ping_count of _handle_sse_connection
    session,        \* what the stream handler did so far: events written, sleeps
    loop_at_entry,  \* WorkingMCPHandler._event_loop as this request's handler found it
    \* the process seen as threads, loops and connections (ServerSpec)
    main_pc,        \* position of main(): "start", "thread_started", "setup_done", "serving"
    thread_pc,      \* run_background_loop's thread: "none", "started", "loop_set", "run_forever"
    loop,           \* the loop reference submissions use (cloud_run_server.loop,
                    \* WorkingMCPHandler._event_loop): 0 is None, else a loop object
    loops_created,  \* how many loop objects were created so far (they are 1..loops_created)
    loop_sets,      \* how many times the loop reference was assigned
    running,        \* the loop objects some thread is running
    queue,          \* connections in the listen queue, oldest first
    hpc,            \* per connection: "none", "queued", "handling", "waiting",
                    \* "streaming", "done"
    kind,           \* per connection: what it asks for
    todo,           \* per connection: bridge submissions its handler still has to make
    units           \* the coroutines submitted to the bridge, in submission order

http_vars == <<event_loop, pc, request, conn, entered, envelopes, bridge_calls,
               ping_count, session, loop_at_entry>>

server_vars == <<main_pc, thread_pc, loop, loops_created, loop_sets, running,
                 queue, hpc, kind, todo, units>>

vars == <<handler_class, mcp_available, http_vars, server_vars>>

----------------------------------------------------------------------------
(* Bounds *)

\* integer request ids are drawn from 1..MaxIntId
MaxIntId == 2
\* gameweek numbers int() can parse are 0..MaxGameweek
MaxGameweek == 3
\* the connections of ServerSpec are 1..MaxConns
MaxConns == 2
\* at most MaxUnits coroutines are submitted to the bridge
MaxUnits == 2
\* the rounds an endless ping loop is followed for
MaxStreamPings == 3

----------------------------------------------------------------------------
(* Python / JSON values *)

None == [type |-> "null", text |-> ""]
JStr(s) == [type |-> "str", text |-> s]
JInt(t) == [type |-> "int", text |-> t]

UNone == [type |-> "null", segs |-> <<>>]
UStr(segs) == [type |-> "str", segs |-> segs]
UInt == [type |-> "int", segs |-> <<>>]

\* Python truthiness of a scalar: None, "" and 0 are falsy
Falsy(v) ==
    \/ v.type = "null"
    \/ v.type = "str" /\ v.text = ""
    \/ v.type = "int" /\ v.text = "0"

\* "".split("/") == [""]
UFalsy(u) ==
    \/ u.type = "null"
    \/ u.type = "str" /\ u.segs = <<"">>

\* dict.get(key, default)
Get(d, k, default) == IF k \in DOMAIN d THEN d[k] ELSE default

Ret(v, w) == [tag |-> "return", val |-> v, w |-> w]
Raise(e, w) == [tag |-> "raise", exc |-> e, w |-> w]
Hang(w) == [tag |-> "hang", w |-> w]

Exc(cls, msg) == [cls |-> cls, msg |-> msg]
\* NoneType / list / str have no attribute 'get'
AttributeError(attr) == Exc("AttributeError", <<"object has no attribute ", attr>>)

\* json.dumps: the text of a value, told apart from the value itself
JsonDumps(v) == [json_text_of |-> v]

\* s.startswith(prefix + "/"), prefix given by its segments
StartsWithDir(segs, prefix) ==
    /\ Len(segs) >= Len(prefix) + 1
    /\ SubSeq(segs, 1, Len(prefix)) = prefix

\* s.endswith("/" + last)
EndsWithSeg(segs, last) == Len(segs) >= 2 /\ segs[Len(segs)] = last

\* int(s): the decimal literals of 0..MaxGameweek parse, any other segment
\* of the model raises ValueError
PyInt(seg, w) ==
    IF \E i \in 0..MaxGameweek : ToString(i) = seg
    THEN Ret(CHOOSE i \in 0..MaxGameweek : ToString(i) = seg, w)
    ELSE Raise(Exc("ValueError", <<"invalid literal for int() with base 10: ", seg>>), w)

----------------------------------------------------------------------------
(* The domain layer, seen through the bridge.  A submitted coroutine ends  *)
(* in one of DomainOutcomes; which one is the environment's choice.        *)

DomainOutcomes == {"value", "empty", "raise", "never"}

Data(op) == [kind |-> "data", of |-> op]
Empty(op) == [kind |-> "empty", of |-> op]
First(v) == [kind |-> "item", of |-> v.of]
Truthy(v) == v.kind # "empty"

DomainError(op) == Exc("Exception", <<"domain failure in ", op>>)
TimeoutError == Exc("TimeoutError", <<"">>)

\* a get_event_loop that hands back a loop some thread was left running
get_event_loop_left_running(w) ==
    IF w.loop = "None" THEN [w EXCEPT !.loop = "created"] ELSE [w EXCEPT !.running = TRUE]

\* WorkingMCPHandler.get_event_loop: the class-level loop is created on first use
get_event_loop(w) ==
    IF w.loop = "None" THEN [w EXCEPT !.loop = "created"] ELSE w

\* WorkingMCPHandler.run_async
run_async(op, oc, w) ==
    LET w1 == get_event_loop(w)
        w2 == [w1 EXCEPT !.calls = Append(@, [op |-> op, outcome |-> oc])]
    IN  IF w1.running
        THEN \* run_coroutine_threadsafe(coro, loop).result(timeout=30)
             CASE oc = "never" -> Raise(TimeoutError, w2)
               [] oc = "raise" -> Raise(DomainError(op), w2)
               [] oc = "empty" -> Ret(Empty(op), w2)
               [] OTHER        -> Ret(Data(op), w2)
        ELSE \* loop.run_until_complete(coro)
             CASE oc = "never" -> Hang(w2)
               [] oc = "raise" -> Raise(DomainError(op), w2)
               [] oc = "empty" -> Ret(Empty(op), w2)
               [] OTHER        -> Ret(Data(op), w2)

----------------------------------------------------------------------------
(* JSON-RPC envelopes *)

Envelope_result(request_id, result) ==
    [jsonrpc |-> "2.0", id |-> request_id, result |-> result]

\* the initialize result; MCPTransportHandler adds a "logging" capability
InitializeResult(caps) ==
    [protocolVersion |-> "2024-11-05",
     capabilities |-> caps,
     serverInfo |-> [name |-> "Fantasy Premier League MCP Server",
                     version |-> "0.1.6"]]

\* resource and tool descriptors are kept by their uri / name
FourResources ==
    <<"fpl://static/players", "fpl://static/teams",
      "fpl://gameweeks/current", "fpl://fixtures">>
FiveResources ==
    <<"fpl://static/players", "fpl://static/teams",
      "fpl://gameweeks/current", "fpl://gameweeks/all", "fpl://fixtures">>
ThreeTools == <<"compare_players", "analyze_player_fixtures", "get_gameweek_status">>
TwoTools == <<"compare_players", "analyze_player_fixtures">>
TwoPrompts == <<"player_analysis_prompt", "transfer_advice_prompt">>

\* mutant: the error envelope loses the request id
Working_error_response_null_id(request_id, code, message) ==
    [jsonrpc |-> "2.0", id |-> None,
     error |-> [code |-> code, message |-> message]]

\* WorkingMCPHandler._error_response
Working_error_response(request_id, code, message) ==
    [jsonrpc |-> "2.0", id |-> request_id,
     error |-> [code |-> code, message |-> message]]

----------------------------------------------------------------------------
(* WorkingMCPHandler: the dispatcher that reaches the domain layer *)

\* the value of request["params"]: a JSON object, or anything else
PDict(d) == [kind |-> "dict", d |-> d]
PNonMapping == [kind |-> "list"]

Segs_static_players == <<"fpl:", "", "static", "players">>
Segs_static_teams == <<"fpl:", "", "static", "teams">>
Segs_gameweeks_current == <<"fpl:", "", "gameweeks", "current">>
Segs_gameweeks_all == <<"fpl:", "", "gameweeks", "all">>
Segs_gameweeks_blank == <<"fpl:", "", "gameweeks", "blank">>
Segs_gameweeks_double == <<"fpl:", "", "gameweeks", "double">>
Segs_fixtures == <<"fpl:", "", "fixtures">>
Segs_fixtures_gameweek == <<"fpl:", "", "fixtures", "gameweek">>
Segs_fixtures_team == <<"fpl:", "", "fixtures", "team">>
Segs_players == <<"fpl:", "", "players">>

\* the n-th coroutine a request submits ends as dom[n] says
Submit(op, dom, w) == run_async(op, dom[Len(w.calls) + 1], w)

\* "matches = run_async(find...); if matches: return matches[0] else: {error}"
FirstMatchOr(r, notfound) ==
    IF r.tag # "return" THEN r
    ELSE IF Truthy(r.val) THEN Ret(First(r.val), r.w)
    ELSE Ret([error |-> notfound], r.w)

\* "team = run_async(get_team_by_name); if team: return team else: {error}"
ValueOr(r, notfound) ==
    IF r.tag # "return" THEN r
    ELSE IF Truthy(r.val) THEN r
    ELSE Ret([error |-> notfound], r.w)

\* the fpl://players/<name>/fixtures branch: two submissions
PlayerFixtures(player_name, dom, w) ==
    LET r1 == Submit("players.find_players_by_name", dom, w)
    IN  IF r1.tag # "return" THEN r1
        ELSE IF ~Truthy(r1.val)
        THEN Ret([error |-> <<"No player found matching ", player_name>>], r1.w)
        ELSE LET r2 == Submit("fixtures.get_player_fixtures", dom, r1.w)
             IN  IF r2.tag # "return" THEN r2
                 ELSE Ret([player |-> First(r1.val), fixtures |-> r2.val], r2.w)

\* WorkingMCPHandler._get_resource_data (its except clause re-raises)
Working_get_resource_data(uri, dom, w) ==
    LET s == uri.segs
        last == s[Len(s)]
    IN  IF uri.type # "str" THEN Raise(AttributeError("startswith"), w)
        ELSE IF s = Segs_static_players
        THEN Submit("players.get_players_resource", dom, w)
        ELSE IF StartsWithDir(s, Segs_static_players)
        THEN FirstMatchOr(Submit("players.find_players_by_name", dom, w),
                          <<"No player found matching ", last>>)
        ELSE IF s = Segs_static_teams
        THEN Submit("teams.get_teams_resource", dom, w)
        ELSE IF StartsWithDir(s, Segs_static_teams)
        THEN ValueOr(Submit("teams.get_team_by_name", dom, w),
                     <<"No team found matching ", last>>)
        ELSE IF s = Segs_gameweeks_current
        THEN Submit("gameweeks.get_current_gameweek_resource", dom, w)
        ELSE IF s = Segs_gameweeks_all
        THEN Submit("gameweeks.get_gameweeks_resource", dom, w)
        ELSE IF s = Segs_fixtures
        THEN Submit("fixtures.get_fixtures_resource", dom, w)
        ELSE IF StartsWithDir(s, Segs_fixtures_gameweek)
        THEN LET g == PyInt(last, w)
             IN  IF g.tag = "raise" THEN g
                 ELSE Submit("fixtures.get_fixtures_resource(gameweek_id)", dom, w)
        ELSE IF StartsWithDir(s, Segs_fixtures_team)
        THEN Submit("fixtures.get_fixtures_resource(team_name)", dom, w)
        ELSE IF StartsWithDir(s, Segs_players) /\ EndsWithSeg(s, "fixtures")
        THEN PlayerFixtures(s[Len(s) - 1], dom, w)
        ELSE IF s = Segs_gameweeks_blank
        THEN Submit("fixtures.get_blank_gameweeks", dom, w)
        ELSE IF s = Segs_gameweeks_double
        THEN Submit("fixtures.get_double_gameweeks", dom, w)
        ELSE Ret([error |-> <<"Unknown resource URI: ", uri>>], w)

\* tools whose arguments are read with arguments.get(...)
ToolsReadingArguments ==
    {"compare_players", "analyze_player_fixtures",
     "get_blank_gameweeks", "get_double_gameweeks"}
\* tools called with **arguments
ToolsSplattingArguments == {"analyze_players", "analyze_fixtures"}

\* WorkingMCPHandler._execute_tool (its except clause re-raises).  The
\* arguments of the coroutine function are evaluated before run_async.
Working_execute_tool(name, arguments, dom, w) ==
    IF name.type # "str" THEN Ret([error |-> <<"Unknown tool: ", name>>], w)
    ELSE IF name.text \in ToolsReadingArguments
    THEN IF arguments # "dict" THEN Raise(AttributeError("get"), w)
         ELSE Submit(name.text, dom, w)
    ELSE IF name.text = "get_gameweek_status"
    THEN Submit(name.text, dom, w)
    ELSE IF name.text \in ToolsSplattingArguments
    THEN IF arguments # "dict"
         THEN Raise(Exc("TypeError", <<"argument after ** must be a mapping">>), w)
         ELSE Submit(name.text, dom, w)
    ELSE Ret([error |-> <<"Unknown tool: ", name>>], w)

\* the "resources/read" branch of WorkingMCPHandler._process_mcp_request
Working_resources_read(request_id, params, dom, w) ==
    IF params.kind # "dict" THEN Raise(AttributeError("get"), w)
    ELSE LET uri == Get(params.d, "uri", UNone)
         IN  IF UFalsy(uri)
             THEN Ret(Working_error_response(request_id, -32602, <<"Missing uri parameter">>), w)
             ELSE LET r == Working_get_resource_data(uri, dom, w)
                  IN  CASE r.tag = "return" ->
                             Ret(Envelope_result(request_id,
                                    [contents |-> <<[uri |-> uri,
                                                     mimeType |-> "application/json",
                                                     text |-> JsonDumps(r.val)]>>]), r.w)
                        [] r.tag = "raise" ->
                             Ret(Working_error_response(request_id, -32603,
                                    <<"Failed to read resource: ", r.exc.msg>>), r.w)
                        [] OTHER -> r

\* the "tools/call" branch of WorkingMCPHandler._process_mcp_request
Working_tools_call(request_id, params, dom, w) ==
    IF params.kind # "dict" THEN Raise(AttributeError("get"), w)
    ELSE LET name == Get(params.d, "name", None)
             arguments == Get(params.d, "arguments", "dict")
         IN  IF Falsy(name)
             THEN Ret(Working_error_response(request_id, -32602, <<"Missing tool name">>), w)
             ELSE LET r == Working_execute_tool(name, arguments, dom, w)
                  IN  CASE r.tag = "return" ->
                             Ret(Envelope_result(request_id,
                                    [content |-> <<[type |-> "text",
                                                    text |-> JsonDumps(r.val)]>>]), r.w)
                        [] r.tag = "raise" ->
                             Ret(Working_error_response(request_id, -32603,
                                    <<"Tool execution failed: ", r.exc.msg>>), r.w)
                        [] OTHER -> r

\* the if/elif chain of WorkingMCPHandler._process_mcp_request
Working_resolve(method, request_id, params, dom, w) ==
    IF method = JStr("initialize")
    THEN Ret(Envelope_result(request_id,
                InitializeResult({"resources", "tools", "prompts"})), w)
    ELSE IF method = JStr("resources/list")
    THEN Ret(Envelope_result(request_id, [resources |-> FourResources]), w)
    ELSE IF method = JStr("resources/read")
    THEN Working_resources_read(request_id, params, dom, w)
    ELSE IF method = JStr("tools/list")
    THEN Ret(Envelope_result(request_id, [tools |-> ThreeTools]), w)
    ELSE IF method = JStr("tools/call")
    THEN Working_tools_call(request_id, params, dom, w)
    ELSE Ret(Working_error_response(request_id, -32601,
                <<"Method not found: ", method>>), w)

\* mutant: the chain without its outer try/except
Working_process_mcp_request_no_except(req, avail, dom, w) ==
    IF ~avail
    THEN Ret(Working_error_response(Get(req, "id", None), -32603,
                <<"MCP server not loaded">>), w)
    ELSE Working_resolve(Get(req, "method", None), Get(req, "id", None),
                         Get(req, "params", PDict(<<>>)), dom, w)

\* WorkingMCPHandler._process_mcp_request: the availability check, then the
\* chain inside try/except
Working_process_mcp_request(req, avail, dom, w) ==
    LET method == Get(req, "method", None)
        params == Get(req, "params", PDict(<<>>))
        request_id == Get(req, "id", None)
    IN  IF ~avail
        THEN Ret(Working_error_response(request_id, -32603, <<"MCP server not loaded">>), w)
        ELSE LET r == Working_resolve(method, request_id, params, dom, w)
             IN  IF r.tag = "raise"
                 THEN Ret(Working_error_response(request_id, -32603, r.exc.msg), r.w)
                 ELSE r

----------------------------------------------------------------------------
(* The dispatchers that never reach the domain layer *)

\* the -32603 envelope of MCPTransportHandler, CloudRunMCPHandler and MCPHandler
InternalError_with_data(request_id, e) ==
    [jsonrpc |-> "2.0", id |-> request_id,
     error |-> [code |-> -32603, message |-> <<"Internal error">>, data |-> e.msg]]

\* the JSON-RPC error envelope these handlers write inline
Envelope_error(request_id, code, message) ==
    [jsonrpc |-> "2.0", id |-> request_id,
     error |-> [code |-> code, message |-> message]]

\* MCPTransportHandler._handle_resources_read
Transport_handle_resources_read(request_id, params, w) ==
    IF params.kind # "dict" THEN Raise(AttributeError("get"), w)
    ELSE LET uri == Get(params.d, "uri", UNone)
         IN  IF UFalsy(uri)
             THEN Ret(Envelope_error(request_id, -32602, <<"Missing uri parameter">>), w)
             ELSE Ret(Envelope_result(request_id,
                        [contents |-> <<[uri |-> uri,
                                         mimeType |-> "application/json",
                                         text |-> JsonDumps([message |->
                                            <<"Resource ", uri, " would be fetched here">>])]>>]), w)

\* MCPTransportHandler._handle_tools_call
Transport_handle_tools_call(request_id, params, w) ==
    IF params.kind # "dict" THEN Raise(AttributeError("get"), w)
    ELSE LET name == Get(params.d, "name", None)
             arguments == Get(params.d, "arguments", "dict")
         IN  IF Falsy(name)
             THEN Ret(Envelope_error(request_id, -32602, <<"Missing tool name">>), w)
             ELSE Ret(Envelope_result(request_id,
                        [content |-> <<[type |-> "text",
                                        text |-> <<"Tool ", name,
                                                   " would be executed here with arguments: ",
                                                   JsonDumps(arguments)>>]>>]), w)

\* MCPTransportHandler._handle_prompts_get
Transport_handle_prompts_get(request_id, params, w) ==
    IF params.kind # "dict" THEN Raise(AttributeError("get"), w)
    ELSE LET name == Get(params.d, "name", None)
             arguments == Get(params.d, "arguments", "dict")
         IN  IF Falsy(name)
             THEN Ret(Envelope_error(request_id, -32602, <<"Missing prompt name">>), w)
             ELSE Ret(Envelope_result(request_id,
                        [description |-> <<"Prompt ", name>>,
                         messages |-> <<[role |-> "user",
                                         content |-> [type |-> "text",
                                            text |-> <<"Prompt ", name,
                                                       " would be generated here with arguments: ",
                                                       JsonDumps(arguments)>>]]>>]), w)

\* the if/elif chain of MCPTransportHandler._process_mcp_request
Transport_resolve(method, request_id, params, w) ==
    IF method = JStr("initialize")
    THEN Ret(Envelope_result(request_id,
                InitializeResult({"resources", "tools", "prompts", "logging"})), w)
    ELSE IF method = JStr("resources/list")
    THEN Ret(Envelope_result(request_id, [resources |-> FiveResources]), w)
    ELSE IF method = JStr("resources/read")
    THEN Transport_handle_resources_read(request_id, params, w)
    ELSE IF method = JStr("tools/list")
    THEN Ret(Envelope_result(request_id, [tools |-> ThreeTools]), w)
    ELSE IF method = JStr("tools/call")
    THEN Transport_handle_tools_call(request_id, params, w)
    ELSE IF method = JStr("prompts/list")
    THEN Ret(Envelope_result(request_id, [prompts |-> TwoPrompts]), w)
    ELSE IF method = JStr("prompts/get")
    THEN Transport_handle_prompts_get(request_id, params, w)
    ELSE Ret(Envelope_error(request_id, -32601, <<"Method not found: ", method>>), w)

\* mutant: the chain without its try/except
Transport_process_mcp_request_no_except(req, w) ==
    Transport_resolve(Get(req, "method", None), Get(req, "id", None),
                      Get(req, "params", PDict(<<>>)), w)

\* MCPTransportHandler._process_mcp_request: the chain inside try/except
Transport_process_mcp_request(req, w) ==
    LET method == Get(req, "method", None)
        params == Get(req, "params", PDict(<<>>))
        request_id == Get(req, "id", None)
        r == Transport_resolve(method, request_id, params, w)
    IN  IF r.tag = "raise" THEN Ret(InternalError_with_data(request_id, r.exc), r.w)
        ELSE r

\* CloudRunMCPHandler._process_with_mcp_server
CloudRun_process_with_mcp_server(req, w) ==
    LET method == Get(req, "method", None)
        request_id == Get(req, "id", None)
    IN  IF method = JStr("initialize")
        THEN Ret(Envelope_result(request_id,
                    InitializeResult({"resources", "tools", "prompts"})), w)
        ELSE IF method = JStr("resources/list")
        THEN Ret(Envelope_result(request_id, [resources |-> FourResources]), w)
        ELSE IF method = JStr("tools/list")
        THEN Ret(Envelope_result(request_id, [tools |-> TwoTools]), w)
        ELSE Ret(Envelope_error(request_id, -32601,
                    <<"Method not implemented: ", method>>), w)

\* CloudRunMCPHandler._process_without_mcp_server
CloudRun_process_without_mcp_server(req, w) ==
    LET method == Get(req, "method", None)
        request_id == Get(req, "id", None)
    IN  Ret(Envelope_error(request_id, -32000,
               <<"MCP server not available - method ", method, " cannot be processed">>), w)

\* the methods SimpleCloudRunHandler lists in error.data.available_methods
Simple_available_methods ==
    <<"initialize", "resources/list", "resources/read", "tools/list",
      "tools/call", "prompts/list", "prompts/get">>

\* SimpleCloudRunHandler._process_mcp_method
Simple_process_mcp_method(method, params, request_id, w) ==
    IF method = JStr("initialize")
    THEN Ret(Envelope_result(request_id,
                InitializeResult({"resources", "tools", "prompts"})), w)
    ELSE IF method = JStr("resources/list")
    THEN Ret(Envelope_result(request_id, [resources |-> FourResources]), w)
    ELSE IF method = JStr("tools/list")
    THEN Ret(Envelope_result(request_id, [tools |-> ThreeTools]), w)
    ELSE IF method = JStr("prompts/list")
    THEN Ret(Envelope_result(request_id, [prompts |-> TwoPrompts]), w)
    ELSE Ret([jsonrpc |-> "2.0", id |-> request_id,
              error |-> [code |-> -32601,
                         message |-> <<"Method not found: ", method>>,
                         data |-> [available_methods |-> Simple_available_methods]]], w)

\* MCPHandler._handle_mcp_request (server.py), called with a JSON object
MCPHandler_handle_mcp_request(req, w) ==
    LET method == Get(req, "method", None)
        request_id == Get(req, "id", None)
    IN  IF method = JStr("initialize")
        THEN Ret(Envelope_result(request_id,
                    InitializeResult({"resources", "tools", "prompts"})), w)
        ELSE IF method = JStr("resources/list")
        THEN Ret(Envelope_result(request_id, [resources |-> FourResources]), w)
        ELSE IF method = JStr("tools/list")
        THEN Ret(Envelope_result(request_id, [tools |-> TwoTools]), w)
        ELSE Ret(Envelope_error(request_id, -32601, <<"Method not found: ", method>>), w)

----------------------------------------------------------------------------
(* http.server.BaseHTTPRequestHandler: the response under construction.    *)
(* send_response and send_header append to _headers_buffer; end_headers    *)
(* flushes the buffer to wfile; wfile.write goes to the wire at once.  The *)
(* Server and Date headers of send_response and the time.time() stamps of  *)
(* the bodies are left out.  The peer accepts every write but, when it has *)
(* gone away, the write of a dispatcher's envelope and the writes after it. *)

NewConn == [buf |-> <<>>, wire |-> <<>>]

send_response(c, code) ==
    [c EXCEPT !.buf = Append(@, [k |-> "status", code |-> code])]
send_header(c, name, value) ==
    [c EXCEPT !.buf = Append(@, [k |-> "header", name |-> name, value |-> value])]
end_headers(c) ==
    [buf |-> <<>>, wire |-> c.wire \o c.buf \o <<[k |-> "end_headers"]>>]
wfile_write(c, body) ==
    [c EXCEPT !.wire = Append(@, [k |-> "body", body |-> body])]

\* what one run of a handler method leaves behind
Handled(c, w, was_entered, envs, end) ==
    [conn |-> c, w |-> w, entered |-> was_entered, envelopes |-> envs, end |-> end]

\* "content_length = int(self.headers.get('Content-Length', 0))" up to
\* "request_data = json.loads(body.decode('utf-8'))"
ReadRequest(req) ==
    CASE req.clen = "bad" ->
            [tag |-> "raise", exc |-> Exc("ValueError", <<"invalid literal for int()">>)]
      [] req.clen \in {"absent", "0"} -> [tag |-> "empty"]
      [] req.body = "invalid_utf8" ->
            [tag |-> "raise", exc |-> Exc("UnicodeDecodeError", <<"invalid start byte">>)]
      [] req.body = "invalid_json" ->
            [tag |-> "raise", exc |-> Exc("JSONDecodeError", <<"Expecting value">>)]
      [] OTHER -> [tag |-> "return", is_object |-> (req.body = "object"), val |-> req.json]

\* the body of the HTTP-level error responses
HttpErrorBody(status_code, message) ==
    JsonDumps([error |-> [code |-> status_code, message |-> message]])

\* the 200 response that carries an envelope
Send200(c, response, cors) ==
    LET c1 == send_header(send_response(c, 200), "Content-Type", "application/json")
        c2 == IF cors THEN send_header(c1, "Access-Control-Allow-Origin", "*") ELSE c1
    IN  wfile_write(end_headers(c2), JsonDumps(response))

\* WorkingMCPHandler._send_error
Working_send_error(c, status_code, message) ==
    LET c1 == send_header(send_response(c, status_code), "Content-Type", "application/json")
        c2 == send_header(c1, "Access-Control-Allow-Origin", "*")
    IN  wfile_write(end_headers(c2), HttpErrorBody(status_code, message))

\* WorkingMCPHandler._handle_404
Working_handle_404(c) ==
    LET c1 == send_header(send_response(c, 404), "Content-Type", "application/json")
        c2 == send_header(c1, "Access-Control-Allow-Origin", "*")
    IN  wfile_write(end_headers(c2),
            JsonDumps([error |-> [code |-> 404, message |-> <<"Not Found">>,
                       available_endpoints |-> <<"GET /health", "GET /mcp", "POST /mcp">>]]))

\* WorkingMCPHandler._handle_mcp_request
Working_handle_mcp_request(req, avail, dom, c, w) ==
    LET rd == ReadRequest(req)
    IN  CASE rd.tag = "empty" ->
                Handled(Working_send_error(c, 400, <<"Empty request body">>), w, FALSE, <<>>, "responded")
          [] rd.tag = "raise" /\ rd.exc.cls = "JSONDecodeError" ->
                Handled(Working_send_error(c, 400, <<"Invalid JSON">>), w, FALSE, <<>>, "responded")
          [] rd.tag = "raise" /\ rd.exc.cls # "JSONDecodeError" ->
                Handled(Working_send_error(c, 500, rd.exc.msg), w, FALSE, <<>>, "responded")
          [] rd.tag = "return" /\ ~rd.is_object ->
                Handled(Working_send_error(c, 500, AttributeError("get").msg), w, FALSE, <<>>, "responded")
          [] OTHER ->
                LET r == Working_process_mcp_request(rd.val, avail, dom, w)
                IN  CASE r.tag = "hang" -> Handled(c, r.w, TRUE, <<>>, "blocked")
                      [] r.tag = "raise" ->
                            Handled(Working_send_error(c, 500, r.exc.msg), r.w, TRUE, <<>>, "responded")
                      [] OTHER ->
                            Handled(Send200(c, r.val, TRUE), r.w, TRUE, <<r.val>>, "responded")

\* WorkingMCPHandler.do_POST
Working_do_POST_run(req, avail, dom, c, w) ==
    IF req.path = "/mcp"
    THEN Working_handle_mcp_request(req, avail, dom, c, w)
    ELSE Handled(Working_handle_404(c), w, FALSE, <<>>, "responded")

\* _set_cors_headers of MCPTransportHandler and CloudRunMCPHandler
set_cors_headers(c) ==
    LET c1 == send_header(c, "Access-Control-Allow-Origin", "*")
        c2 == send_header(c1, "Access-Control-Allow-Methods", "GET, POST, OPTIONS")
        c3 == send_header(c2, "Access-Control-Allow-Headers", "Content-Type, Authorization")
    IN  send_header(c3, "Access-Control-Max-Age", "86400")

\* _send_error_response of MCPTransportHandler and CloudRunMCPHandler,
\* _send_error of SimpleCloudRunHandler
send_error_response(c, status_code, message) ==
    LET c1 == send_header(send_response(c, status_code), "Content-Type", "application/json")
    IN  wfile_write(end_headers(c1), HttpErrorBody(status_code, message))

\* _send_404 of MCPTransportHandler and CloudRunMCPHandler
send_404(c) ==
    LET c1 == send_header(send_response(c, 404), "Content-Type", "application/json")
    IN  wfile_write(end_headers(c1),
            JsonDumps([error |-> [code |-> 404, message |-> <<"Not Found">>,
                       available_endpoints |-> <<"/", "/health", "/mcp", "/mcp/capabilities">>]]))

\* the try/except frame shared by the _handle_mcp_request methods whose
\* dispatcher cannot block: r is what the dispatcher returns for the object
\* (SimpleCloudRunHandler words the messages of its 400 and 500 differently)
HandleWith(rd, r, c, w) ==
    CASE rd.tag = "empty" ->
            Handled(send_error_response(c, 400, <<"Empty request body">>), w, FALSE, <<>>, "responded")
      [] rd.tag = "raise" /\ rd.exc.cls = "JSONDecodeError" ->
            Handled(send_error_response(c, 400, <<"Invalid JSON">>), w, FALSE, <<>>, "responded")
      [] rd.tag = "raise" /\ rd.exc.cls # "JSONDecodeError" ->
            Handled(send_error_response(c, 500, <<"Internal error: ", rd.exc.msg>>), w, FALSE, <<>>, "responded")
      [] rd.tag = "return" /\ ~rd.is_object ->
            Handled(send_error_response(c, 500, <<"Internal error: ", AttributeError("get").msg>>),
                    w, FALSE, <<>>, "responded")
      [] r.tag = "raise" ->
            Handled(send_error_response(c, 500, <<"Internal error: ", r.exc.msg>>), r.w, TRUE, <<>>, "responded")
      [] OTHER ->
            Handled(Send200(c, r.val, FALSE), r.w, TRUE, <<r.val>>, "responded")

\* MCPTransportHandler._handle_mcp_request
Transport_handle_mcp_request(req, c, w) ==
    LET rd == ReadRequest(req)
    IN  HandleWith(rd, IF rd.tag = "return" /\ rd.is_object
                       THEN Transport_process_mcp_request(rd.val, w) ELSE rd, c, w)

\* MCPTransportHandler.do_POST
Transport_do_POST_run(req, avail, c, w) ==
    LET c1 == set_cors_headers(c)
    IN  IF req.path = "/mcp" /\ avail
        THEN Transport_handle_mcp_request(req, c1, w)
        ELSE Handled(send_404(c1), w, FALSE, <<>>, "responded")

\* CloudRunMCPHandler._handle_mcp_request
CloudRun_handle_mcp_request(req, avail, c, w) ==
    LET rd == ReadRequest(req)
    IN  HandleWith(rd, IF rd.tag = "return" /\ rd.is_object
                       THEN IF avail THEN CloudRun_process_with_mcp_server(rd.val, w)
                            ELSE CloudRun_process_without_mcp_server(rd.val, w)
                       ELSE rd, c, w)

\* CloudRunMCPHandler.do_POST
CloudRun_do_POST_run(req, avail, c, w) ==
    LET c1 == set_cors_headers(c)
    IN  IF req.path = "/mcp"
        THEN CloudRun_handle_mcp_request(req, avail, c1, w)
        ELSE Handled(send_404(c1), w, FALSE, <<>>, "responded")


\* SimpleCloudRunHandler._handle_404
Simple_handle_404(c) ==
    LET c1 == send_header(send_response(c, 404), "Content-Type", "application/json")
    IN  wfile_write(end_headers(c1),
            JsonDumps([error |-> [code |-> 404, message |-> <<"Not Found">>,
                       available_endpoints |->
                          <<"GET /health - Health check",
                            "GET /mcp/capabilities - Server capabilities",
                            "GET /mcp - MCP info",
                            "POST /mcp - MCP JSON-RPC requests">>]]))

\* SimpleCloudRunHandler._handle_mcp_request
Simple_handle_mcp_request(req, c, w) ==
    LET rd == ReadRequest(req)
    IN  HandleWith(rd, IF rd.tag = "return" /\ rd.is_object
                       THEN Simple_process_mcp_method(
                                Get(rd.val, "method", JStr("unknown")),
                                Get(rd.val, "params", PDict(<<>>)),
                                Get(rd.val, "id", None), w)
                       ELSE rd, c, w)

\* SimpleCloudRunHandler.do_POST
Simple_do_POST_run(req, c, w) ==
    LET c1 == send_header(c, "Access-Control-Allow-Origin", "*")
        c2 == send_header(c1, "Access-Control-Allow-Methods", "GET, POST, OPTIONS")
        c3 == send_header(c2, "Access-Control-Allow-Headers", "Content-Type, Authorization")
    IN  IF req.path = "/mcp"
        THEN Simple_handle_mcp_request(req, c3, w)
        ELSE Handled(Simple_handle_404(c3), w, FALSE, <<>>, "responded")

\* the except clause of MCPHandler.do_POST (server.py): a 500 whose body is
\* a -32603 envelope; known says whether request_data was bound
MCPHandler_send_500(c, known, request_id, e) ==
    LET c1 == send_header(send_response(c, 500), "Content-Type", "application/json")
        c2 == end_headers(send_header(c1, "Access-Control-Allow-Origin", "*"))
    IN  wfile_write(c2, JsonDumps(InternalError_with_data(
                                    IF known THEN request_id ELSE None, e)))

\* MCPHandler.do_POST (server.py)
MCPHandler_do_POST_run(req, avail, c, w) ==
    IF ~(req.path = "/mcp" /\ avail)
    THEN Handled(end_headers(send_response(c, 404)), w, FALSE, <<>>, "responded")
    ELSE IF req.clen = "bad"
    THEN Handled(MCPHandler_send_500(c, FALSE, None,
                    Exc("ValueError", <<"invalid literal for int()">>)),
                 w, FALSE, <<>>, "responded")
    ELSE IF req.clen = "n" /\ req.body \in {"invalid_utf8", "invalid_json"}
    THEN Handled(MCPHandler_send_500(c, FALSE, None, ReadRequest(req).exc),
                 w, FALSE, <<>>, "responded")
    ELSE IF req.clen = "n" /\ req.body # "object"
    THEN \* request_data is a list: .get raises in _handle_mcp_request, again in
         \* its except clause, and again in do_POST's except clause after the
         \* 500 status and headers went out
         LET c1 == send_header(send_response(c, 500), "Content-Type", "application/json")
             c2 == end_headers(send_header(c1, "Access-Control-Allow-Origin", "*"))
         IN  Handled(c2, w, TRUE, <<>>, "crashed")
    ELSE LET request_data == IF req.clen = "n" THEN req.json ELSE <<>>
             r == MCPHandler_handle_mcp_request(request_data, w)
             c1 == send_header(send_response(c, 200), "Content-Type", "application/json")
             c2 == send_header(c1, "Access-Control-Allow-Origin", "*")
             c3 == end_headers(send_header(c2, "Access-Control-Allow-Headers", "Content-Type"))
         IN  Handled(wfile_write(c3, JsonDumps(r.val)), r.w, TRUE, <<r.val>>, "responded")

\* MinimalHandler.do_POST: every path, the request is never read
Minimal_do_POST_run(req, c, w) ==
    LET c1 == send_header(send_response(c, 200), "Content-Type", "application/json")
        c2 == end_headers(send_header(c1, "Access-Control-Allow-Origin", "*"))
    IN  Handled(wfile_write(c2, JsonDumps([message |-> <<"POST endpoint available">>,
                                           path |-> req.path])),
                w, FALSE, <<>>, "responded")

BrokenPipeError == Exc("BrokenPipeError", <<"[Errno 32] Broken pipe">>)

\* the response the handler has sent when it comes to write the body
Unwritten(h) == [h.conn EXCEPT !.wire = SubSeq(@, 1, Len(@) - 1)]

\* "self.wfile.write(json.dumps(response).encode())" raises BrokenPipeError
\* after the 200 status and headers went out: the "except Exception" clause
\* of _handle_mcp_request sends an error response (c1 is Unwritten(h) with
\* that response), whose send_response and send_header fill the buffer again
\* and whose end_headers raises in turn, the exception leaving the handler
\* with the buffer unsent
BodyWriteFails(h, c1) ==
    LET c0 == Unwritten(h)
        unsent == SubSeq(c1.wire, Len(c0.wire) + 1, Len(c1.wire))
    IN  [h EXCEPT !.conn = [buf |-> SelectSeq(unsent, LAMBDA x : x.k \in {"status", "header"}),
                            wire |-> c0.wire],
                  !.end = "crashed"]

\* the end of _handle_mcp_request: the envelope is written, or the peer has gone
WriteEnvelope(h, peer_gone, c1) ==
    IF peer_gone /\ h.end = "responded" /\ h.envelopes # <<>>
    THEN BodyWriteFails(h, c1)
    ELSE h

----------------------------------------------------------------------------
(* GET: health, capabilities and the event stream of MCPTransportHandler,  *)
(* CloudRunMCPHandler and MCPHandler.  A stream is followed one iteration  *)
(* of its ping loop at a time.  session is what the client has been sent  *)
(* on this stream, with the sleeps of the handler between the events.      *)

\* "while ping_count < 120" of CloudRunMCPHandler._handle_sse_connection
PingLimit == 120
\* "time.sleep(30)"
PingInterval == 30

StreamingHandlers == {"MCPTransportHandler", "CloudRunMCPHandler", "MCPHandler"}

\* what a run of do_GET leaves behind: end is "streaming" while the handler
\* is in its ping loop
Got(c, events, end) == [conn |-> c, session |-> events, end |-> end]

Event(data) == [k |-> "event", data |-> data]
Sleep == [k |-> "sleep", secs |-> PingInterval]

\* _send_sse_message: message = f"data: {json.dumps(data)}\n\n"
send_sse_message(c, data) ==
    [c EXCEPT !.wire = Append(@, [k |-> "sse", message |-> <<"data: ", JsonDumps(data), "\n\n">>])]

\* _handle_health_check of MCPTransportHandler (avail is MCP_AVAILABLE) and
\* of CloudRunMCPHandler (avail is "mcp_server is not None")
handle_health_check(c, avail) ==
    LET c1 == send_header(send_response(c, 200), "Content-Type", "application/json")
    IN  wfile_write(end_headers(c1),
            JsonDumps([status |-> "healthy",
                       service |-> "Fantasy Premier League MCP Server",
                       version |-> "0.1.6",
                       mcp_available |-> avail]))

\* _handle_capabilities; extra is the key CloudRunMCPHandler adds
handle_capabilities(c, extra) ==
    LET c1 == send_header(send_response(c, 200), "Content-Type", "application/json")
    IN  wfile_write(end_headers(c1),
            JsonDumps([protocol_version |-> "2024-11-05",
                       transport |-> <<"http", "sse">>] @@ extra))

\* the head of _handle_sse_connection: status line and stream headers
sse_headers(c) ==
    LET c1 == send_header(send_response(c, 200), "Content-Type", "text/event-stream")
        c2 == send_header(c1, "Cache-Control", "no-cache")
    IN  send_header(c2, "Connection", "keep-alive")

\* _handle_sse_connection up to its loop; peer_gone: the first write raises
\* BrokenPipeError, which the handler takes as the end of the session
handle_sse_connection(c, connection, peer_gone) ==
    LET c1 == end_headers(sse_headers(c))
    IN  IF peer_gone THEN Got(c1, <<>>, "responded")
        ELSE Got(send_sse_message(c1, connection), <<Event(connection)>>, "streaming")

Transport_connection ==
    [type |-> "connection", status |-> "connected",
     server |-> "Fantasy Premier League MCP Server"]

CloudRun_connection(avail) ==
    [type |-> "connection", status |-> "connected",
     server |-> "Fantasy Premier League MCP Server", mcp_available |-> avail]

\* MCPTransportHandler.do_GET
Transport_do_GET_run(req, avail, c, peer_gone) ==
    LET c1 == set_cors_headers(c)
    IN  CASE req.path \in {"/", "/health"} -> Got(handle_health_check(c1, avail), <<>>, "responded")
          [] req.path = "/mcp" /\ avail -> handle_sse_connection(c1, Transport_connection, peer_gone)
          [] req.path = "/mcp/capabilities" /\ avail -> Got(handle_capabilities(c1, <<>>), <<>>, "responded")
          [] OTHER -> Got(send_404(c1), <<>>, "responded")

\* CloudRunMCPHandler.do_GET
CloudRun_do_GET_run(req, avail, c, peer_gone) ==
    LET c1 == set_cors_headers(c)
    IN  CASE req.path \in {"/", "/health"} -> Got(handle_health_check(c1, avail), <<>>, "responded")
          [] req.path = "/mcp/capabilities" ->
                Got(handle_capabilities(c1, [mcp_server_available |-> avail]), <<>>, "responded")
          [] req.path = "/mcp" -> handle_sse_connection(c1, CloudRun_connection(avail), peer_gone)
          [] OTHER -> Got(send_404(c1), <<>>, "responded")

\* the ping of each handler's loop; n is ping_count
Ping(h, n) ==
    CASE h = "CloudRunMCPHandler" -> [type |-> "ping", count |-> n]
      [] OTHER -> [type |-> "ping"]

\* MCPHandler.do_GET: the stream has no connection event, its loop starts
\* with the first write of b'data: {"type": "ping"}\n\n'
MCPHandler_do_GET_run(req, avail, c) ==
    CASE req.path \in {"/", "/health"} ->
            LET c1 == send_header(send_response(c, 200), "Content-type", "application/json")
                c2 == send_header(c1, "Access-Control-Allow-Origin", "*")
            IN  Got(wfile_write(end_headers(c2),
                        JsonDumps([status |-> "healthy",
                                   service |-> "Fantasy Premier League MCP Server",
                                   mcp_available |-> avail])),
                    <<>>, "responded")
      [] req.path = "/mcp" /\ avail ->
            LET c1 == send_header(sse_headers(c), "Access-Control-Allow-Origin", "*")
                c2 == send_header(c1, "Access-Control-Allow-Headers", "Content-Type")
            IN  Got(end_headers(c2), <<>>, "streaming")
      [] OTHER -> Got(end_headers(send_response(c, 404)), <<>>, "responded")

\* a JSON response with status 200 and the headers WorkingMCPHandler and
\* MinimalHandler give their GET routes
Json200(c, body) ==
    LET c1 == send_header(send_response(c, 200), "Content-Type", "application/json")
    IN  wfile_write(end_headers(send_header(c1, "Access-Control-Allow-Origin", "*")),
                    JsonDumps(body))

\* WorkingMCPHandler.do_GET (loaded is "self.fpl_mcp_server is not None")
Working_do_GET_run(req, loaded, c) ==
    CASE req.path \in {"/", "/health"} ->
            Got(Json200(c, [status |-> "healthy",
                            service |-> "Fantasy Premier League MCP Server",
                            version |-> "0.1.6",
                            mcp_server_loaded |-> loaded]),
                <<>>, "responded")
      [] req.path = "/mcp" ->
            Got(Json200(c, [service |-> "Fantasy Premier League MCP Server",
                            protocol |-> "Model Context Protocol",
                            version |-> "2024-11-05",
                            server_loaded |-> loaded]),
                <<>>, "responded")
      [] OTHER -> Got(Working_handle_404(c), <<>>, "responded")

\* SimpleCloudRunHandler.do_GET: _handle_health, _handle_capabilities and
\* _handle_mcp_info send status 200 and Content-Type after the three headers
Simple_do_GET_run(req, c) ==
    LET c1 == send_header(c, "Access-Control-Allow-Origin", "*")
        c2 == send_header(c1, "Access-Control-Allow-Methods", "GET, POST, OPTIONS")
        c3 == send_header(c2, "Access-Control-Allow-Headers", "Content-Type, Authorization")
    IN  CASE req.path \in {"/", "/health"} ->
                Got(Send200(c3, [status |-> "healthy",
                                 service |-> "Fantasy Premier League MCP Server",
                                 version |-> "0.1.6"], FALSE),
                    <<>>, "responded")
          [] req.path = "/mcp/capabilities" ->
                Got(Send200(c3, [protocol_version |-> "2024-11-05", transport |-> "http"], FALSE),
                    <<>>, "responded")
          [] req.path = "/mcp" ->
                Got(Send200(c3, [service |-> "Fantasy Premier League MCP Server",
                                 transport |-> "http",
                                 protocol |-> "Model Context Protocol",
                                 version |-> "2024-11-05"], FALSE),
                    <<>>, "responded")
          [] OTHER -> Got(Simple_handle_404(c3), <<>>, "responded")

\* MinimalHandler.do_GET
Minimal_do_GET_run(req, c) ==
    IF req.path \in {"/", "/health"}
    THEN Got(Json200(c, [status |-> "healthy",
                         service |-> "Fantasy Premier League MCP Server",
                         version |-> "0.1.6",
                         message |-> "Server is running successfully"]),
             <<>>, "responded")
    ELSE LET c1 == send_header(send_response(c, 404), "Content-Type", "application/json")
         IN  Got(wfile_write(end_headers(c1), JsonDumps([error |-> JStr("Not found")])),
                 <<>>, "responded")

\* do_OPTIONS of each handler class
do_OPTIONS_run(h, c) ==
    LET preflight(allow_headers) ==
            LET c1 == send_header(send_response(c, 200), "Access-Control-Allow-Origin", "*")
                c2 == send_header(c1, "Access-Control-Allow-Methods", "GET, POST, OPTIONS")
            IN  end_headers(send_header(c2, "Access-Control-Allow-Headers", allow_headers))
    IN  CASE h \in {"MCPTransportHandler", "CloudRunMCPHandler"} ->
                end_headers(send_response(set_cors_headers(c), 200))
          [] h \in {"WorkingMCPHandler", "SimpleCloudRunHandler"} ->
                preflight("Content-Type, Authorization")
          [] OTHER -> preflight("Content-Type")

----------------------------------------------------------------------------
(* The requests the environment sends *)

HandlerClasses ==
    {"WorkingMCPHandler", "MCPTransportHandler", "CloudRunMCPHandler",
     "SimpleCloudRunHandler", "MCPHandler", "MinimalHandler"}

RecognizedMethods ==
    {"initialize", "resources/list", "resources/read", "tools/list",
     "tools/call", "prompts/list", "prompts/get"}

\* request ids: null, integers, and strings that spell the same integers
RequestIds ==
    {None, JStr("abc")}
        \cup {JInt(ToString(i)) : i \in 1..MaxIntId}
        \cup {JStr(ToString(i)) : i \in 1..MaxIntId}

GameweekSegs == {ToString(i) : i \in 1..MaxGameweek} \cup {"abc", ""}

UriValues ==
    {UNone, UInt, UStr(<<"">>),
     UStr(Segs_static_players), UStr(Segs_static_players \o <<"salah">>),
     UStr(Segs_static_teams), UStr(Segs_static_teams \o <<"arsenal">>),
     UStr(Segs_gameweeks_current), UStr(Segs_gameweeks_blank),
     UStr(Segs_fixtures), UStr(Segs_fixtures_team \o <<"arsenal">>),
     UStr(Segs_players \o <<"salah", "fixtures">>),
     UStr(<<"fpl:", "", "nonsense">>)}
        \cup {UStr(Segs_fixtures_gameweek \o <<g>>) : g \in GameweekSegs}

NameValues ==
    {None, JStr(""), JStr("compare_players"), JStr("analyze_players"),
     JStr("get_gameweek_status"), JStr("no_such_tool"), JStr("player_analysis_prompt")}

\* the value of "arguments": a JSON object, or anything else
ArgumentsValues == {"dict", "list"}

ParamsValues ==
    {PNonMapping, PDict(<<>>)}
        \cup {PDict([uri |-> u]) : u \in UriValues}
        \cup {PDict([name |-> n]) : n \in NameValues}
        \cup {PDict([name |-> n, arguments |-> a]) : n \in NameValues, a \in ArgumentsValues}

MethodValues == {JStr(m) : m \in RecognizedMethods \cup {"no/such"}}

\* a JSON object: each of "id", "method" and "params" present or absent
JsonObjects ==
    LET ids == {<<>>} \cup {[id |-> i] : i \in RequestIds}
        methods == {<<>>} \cup {[method |-> m] : m \in MethodValues}
        params == {<<>>} \cup {[params |-> p] : p \in ParamsValues}
    IN  {i @@ m @@ p : i \in ids, m \in methods, p \in params}

NoJson == <<>>

HttpRequest(verb, path, clen, body, json) ==
    [verb |-> verb, path |-> path, clen |-> clen, body |-> body, json |-> json]

Requests ==
    {HttpRequest("POST", "/mcp", "n", "object", j) : j \in JsonObjects}
        \cup {HttpRequest("POST", "/mcp", "n", b, NoJson) :
                b \in {"invalid_utf8", "invalid_json", "array"}}
        \cup {HttpRequest("POST", "/mcp", cl, "none", NoJson) : cl \in {"absent", "0", "bad"}}
        \cup {HttpRequest("POST", "/nope", "n", "object", [method |-> JStr("initialize")])}

GetRequests ==
    {HttpRequest("GET", p, "absent", "none", NoJson) :
        p \in {"/", "/health", "/mcp", "/mcp/capabilities", "/nope"}}

OptionsRequests ==
    {HttpRequest("OPTIONS", p, "absent", "none", NoJson) : p \in {"/mcp", "/nope"}}

NoRequest == HttpRequest("-", "-", "absent", "none", NoJson)

----------------------------------------------------------------------------
(* Actions *)

\* the values the thread-level variables keep while one connection is
\* followed through its handler
ServerQuiet ==
    /\ main_pc = "serving"
    /\ thread_pc = "none"
    /\ loop = 0
    /\ loops_created = 0
    /\ loop_sets = 0
    /\ running = {}
    /\ queue = <<>>
    /\ hpc = [c \in 1..MaxConns |-> "none"]
    /\ kind = [c \in 1..MaxConns |-> "none"]
    /\ todo = [c \in 1..MaxConns |-> 0]
    /\ units = <<>>

Init ==
    /\ handler_class \in HandlerClasses
    /\ mcp_available \in BOOLEAN
    /\ event_loop = "None"
    /\ pc = "idle"
    /\ request = NoRequest
    /\ conn = NewConn
    /\ entered = FALSE
    /\ envelopes = <<>>
    /\ bridge_calls = <<>>
    /\ ping_count = 0
    /\ session = <<>>
    /\ loop_at_entry = "None"
    /\ ServerQuiet

\* HTTPServer accepts the next connection and parses the request line and headers
Receive ==
    /\ pc = "idle"
    /\ \E r \in Requests \cup GetRequests \cup OptionsRequests : request' = r
    /\ pc' = "received"
    /\ conn' = NewConn
    /\ entered' = FALSE
    /\ envelopes' = <<>>
    /\ bridge_calls' = <<>>
    /\ ping_count' = 0
    /\ session' = <<>>
    /\ loop_at_entry' = event_loop
    /\ UNCHANGED <<handler_class, mcp_available, event_loop, server_vars>>

\* the state a handler run starts from.  Nothing in working_cloud_run_server.py
\* runs WorkingMCPHandler._event_loop outside run_until_complete, and the
\* server is single-threaded, so loop.is_running() is False in run_async.
BridgeState == [loop |-> event_loop, running |-> FALSE, calls |-> <<>>]

Finish(h) ==
    /\ conn' = h.conn
    /\ entered' = h.entered
    /\ envelopes' = h.envelopes
    /\ bridge_calls' = h.w.calls
    /\ event_loop' = h.w.loop
    /\ pc' = h.end
    /\ UNCHANGED <<handler_class, mcp_available, request, ping_count, session, loop_at_entry,
                 server_vars>>

Working_do_POST ==
    /\ pc = "received" /\ handler_class = "WorkingMCPHandler" /\ request.verb = "POST"
    /\ \E dom \in [1..2 -> DomainOutcomes], peer_gone \in BOOLEAN :
          \E h \in {Working_do_POST_run(request, mcp_available, dom, conn, BridgeState)} :
              Finish(WriteEnvelope(h, peer_gone,
                        Working_send_error(Unwritten(h), 500, BrokenPipeError.msg)))

Transport_do_POST ==
    /\ pc = "received" /\ handler_class = "MCPTransportHandler" /\ request.verb = "POST"
    /\ \E peer_gone \in BOOLEAN :
          \E h \in {Transport_do_POST_run(request, mcp_available, conn, BridgeState)} :
              Finish(WriteEnvelope(h, peer_gone,
                        send_error_response(Unwritten(h), 500,
                                            <<"Internal error: ", BrokenPipeError.msg>>)))

CloudRun_do_POST ==
    /\ pc = "received" /\ handler_class = "CloudRunMCPHandler" /\ request.verb = "POST"
    /\ \E peer_gone \in BOOLEAN :
          \E h \in {CloudRun_do_POST_run(request, mcp_available, conn, BridgeState)} :
              Finish(WriteEnvelope(h, peer_gone,
                        send_error_response(Unwritten(h), 500,
                                            <<"Internal error: ", BrokenPipeError.msg>>)))

Simple_do_POST ==
    /\ pc = "received" /\ handler_class = "SimpleCloudRunHandler" /\ request.verb = "POST"
    /\ \E peer_gone \in BOOLEAN :
          \E h \in {Simple_do_POST_run(request, conn, BridgeState)} :
              Finish(WriteEnvelope(h, peer_gone,
                        send_error_response(Unwritten(h), 500,
                                            <<"Internal server error: ", BrokenPipeError.msg>>)))

MCPHandler_do_POST ==
    /\ pc = "received" /\ handler_class = "MCPHandler" /\ request.verb = "POST"
    /\ Finish(MCPHandler_do_POST_run(request, mcp_available, conn, BridgeState))

Minimal_do_POST ==
    /\ pc = "received" /\ handler_class = "MinimalHandler" /\ request.verb = "POST"
    /\ Finish(Minimal_do_POST_run(request, conn, BridgeState))

\* a do_GET run: the whole handler for health, capabilities and 404, and the
\* handler up to its ping loop for a stream
FinishGet(g) ==
    /\ conn' = g.conn
    /\ session' = g.session
    /\ pc' = g.end
    /\ UNCHANGED <<handler_class, mcp_available, event_loop, request, entered,
                   envelopes, bridge_calls, ping_count, loop_at_entry, server_vars>>

Transport_do_GET ==
    /\ pc = "received" /\ handler_class = "MCPTransportHandler" /\ request.verb = "GET"
    /\ \E peer_gone \in BOOLEAN :
          FinishGet(Transport_do_GET_run(request, mcp_available, conn, peer_gone))

CloudRun_do_GET ==
    /\ pc = "received" /\ handler_class = "CloudRunMCPHandler" /\ request.verb = "GET"
    /\ \E peer_gone \in BOOLEAN :
          FinishGet(CloudRun_do_GET_run(request, mcp_available, conn, peer_gone))

MCPHandler_do_GET ==
    /\ pc = "received" /\ handler_class = "MCPHandler" /\ request.verb = "GET"
    /\ FinishGet(MCPHandler_do_GET_run(request, mcp_available, conn))

Working_do_GET ==
    /\ pc = "received" /\ handler_class = "WorkingMCPHandler" /\ request.verb = "GET"
    /\ FinishGet(Working_do_GET_run(request, mcp_available, conn))

Simple_do_GET ==
    /\ pc = "received" /\ handler_class = "SimpleCloudRunHandler" /\ request.verb = "GET"
    /\ FinishGet(Simple_do_GET_run(request, conn))

Minimal_do_GET ==
    /\ pc = "received" /\ handler_class = "MinimalHandler" /\ request.verb = "GET"
    /\ FinishGet(Minimal_do_GET_run(request, conn))

do_OPTIONS ==
    /\ pc = "received" /\ request.verb = "OPTIONS"
    /\ FinishGet(Got(do_OPTIONS_run(handler_class, conn), <<>>, "responded"))

\* the head of an iteration of a ping loop: the ping is written and the
\* handler goes to sleep, or the write raises BrokenPipeError and the handler
\* returns.  recorded: the pings of an endless loop are kept in conn and in
\* session for its first MaxStreamPings rounds only.
sse_ping(recorded) ==
    /\ pc = "streaming"
    /\ \/ /\ pc' = "sleeping"
          /\ IF recorded
             THEN /\ conn' = send_sse_message(conn, Ping(handler_class, ping_count))
                  /\ session' = Append(session, Event(Ping(handler_class, ping_count)))
             ELSE UNCHANGED <<conn, session>>
       \/ /\ pc' = "responded"
          /\ UNCHANGED <<conn, session>>
    /\ UNCHANGED <<handler_class, mcp_available, event_loop, request, entered,
                   envelopes, bridge_calls, ping_count, loop_at_entry, server_vars>>

\* "while ping_count < 120:" of CloudRunMCPHandler
CloudRun_sse_ping ==
    /\ handler_class = "CloudRunMCPHandler"
    /\ sse_ping(TRUE)

\* "while True:" of MCPTransportHandler
Transport_sse_ping ==
    /\ handler_class = "MCPTransportHandler"
    /\ sse_ping(ping_count < MaxStreamPings)

\* "while True:" of MCPHandler.do_GET
MCPHandler_sse_ping ==
    /\ handler_class = "MCPHandler"
    /\ sse_ping(ping_count < MaxStreamPings)

\* the rest of the iteration: "time.sleep(30)", then for CloudRunMCPHandler
\* "ping_count += 1" and the test of its loop.  For the endless loops
\* ping_count counts the rounds that were recorded.
sse_sleep ==
    /\ pc = "sleeping"
    /\ IF handler_class = "CloudRunMCPHandler"
       THEN /\ ping_count' = ping_count + 1
            /\ session' = Append(session, Sleep)
            /\ pc' = IF ping_count + 1 < PingLimit THEN "streaming" ELSE "responded"
       ELSE /\ ping_count' = IF ping_count < MaxStreamPings THEN ping_count + 1 ELSE ping_count
            /\ session' = IF ping_count < MaxStreamPings THEN Append(session, Sleep) ELSE session
            /\ pc' = "streaming"
    /\ UNCHANGED <<handler_class, mcp_available, event_loop, request, conn, entered,
                   envelopes, bridge_calls, loop_at_entry, server_vars>>

\* the connection is closed; the server goes back to accept()
Close ==
    /\ pc \in {"responded", "crashed"}
    /\ pc' = "idle"
    /\ request' = NoRequest
    /\ conn' = NewConn
    /\ entered' = FALSE
    /\ envelopes' = <<>>
    /\ bridge_calls' = <<>>
    /\ ping_count' = 0
    /\ session' = <<>>
    /\ loop_at_entry' = event_loop
    /\ UNCHANGED <<handler_class, mcp_available, event_loop, server_vars>>

Next ==
    \/ Receive
    \/ Working_do_POST
    \/ Transport_do_POST
    \/ CloudRun_do_POST
    \/ Simple_do_POST
    \/ MCPHandler_do_POST
    \/ Minimal_do_POST
    \/ Transport_do_GET
    \/ CloudRun_do_GET
    \/ MCPHandler_do_GET
    \/ Working_do_GET
    \/ Simple_do_GET
    \/ Minimal_do_GET
    \/ do_OPTIONS
    \/ Transport_sse_ping
    \/ CloudRun_sse_ping
    \/ MCPHandler_sse_ping
    \/ sse_sleep
    \/ Close

Spec == Init /\ [][Next]_vars

\* the handler thread keeps running: an iteration of a ping loop that can be
\* made is made.  Nothing obliges the client of a stream to go away.
StreamFairness ==
    /\ WF_vars(CloudRun_sse_ping)
    /\ WF_vars(Transport_sse_ping)
    /\ WF_vars(MCPHandler_sse_ping)
    /\ WF_vars(sse_sleep)

StreamSpec == Init /\ [][Next]_vars /\ StreamFairness

----------------------------------------------------------------------------
(* The process as threads, event loops and connections.  main() builds an   *)
(* http.server.HTTPServer, which is no ThreadingHTTPServer: serve_forever   *)
(* runs one handler at a time, to its end, on the main thread.              *)
(* cloud_run_server.py also starts a daemon thread for an event loop.  The  *)
(* statements of that thread and of main() interleave freely: the           *)
(* time.sleep(1) in main() orders nothing.                                  *)

Conns == 1..MaxConns

\* what a connection asks for: GET /health, GET /mcp as an event stream
\* (CloudRunMCPHandler), a POST /mcp that reaches the bridge.  No handler of
\* cloud_run_server.py calls run_async_in_thread; there the "domain" kind
\* stands for a caller of that function on the handler thread.
Kinds(h) ==
    IF h = "WorkingMCPHandler" THEN {"health", "domain"}
    ELSE {"health", "stream", "domain"}

ServerInit ==
    /\ handler_class \in {"WorkingMCPHandler", "CloudRunMCPHandler"}
    /\ mcp_available \in BOOLEAN
    /\ event_loop = "None"
    /\ pc = "idle"
    /\ request = NoRequest
    /\ conn = NewConn
    /\ entered = FALSE
    /\ envelopes = <<>>
    /\ bridge_calls = <<>>
    /\ ping_count = 0
    /\ session = <<>>
    /\ loop_at_entry = "None"
    /\ main_pc = "start"
    /\ thread_pc = "none"
    /\ loop = 0
    /\ loops_created = 0
    /\ loop_sets = 0
    /\ running = {}
    /\ queue = <<>>
    /\ hpc = [c \in Conns |-> "none"]
    /\ kind = [c \in Conns |-> "none"]
    /\ todo = [c \in Conns |-> 0]
    /\ units = <<>>

\* "loop = asyncio.new_event_loop()": a new loop object, and the reference set
NewLoop ==
    /\ loops_created' = loops_created + 1
    /\ loop' = loops_created + 1
    /\ loop_sets' = loop_sets + 1

\* cloud_run_server.main: loop_thread.start()
main_start_thread ==
    /\ handler_class = "CloudRunMCPHandler"
    /\ main_pc = "start"
    /\ main_pc' = "thread_started"
    /\ thread_pc' = "started"
    /\ UNCHANGED <<handler_class, mcp_available, http_vars, loop, loops_created,
                   loop_sets, running, queue, hpc, kind, todo, units>>

\* run_background_loop: "loop = asyncio.new_event_loop()"
run_background_loop_new ==
    /\ thread_pc = "started"
    /\ NewLoop
    /\ thread_pc' = "loop_set"
    /\ UNCHANGED <<handler_class, mcp_available, http_vars, main_pc, running,
                   queue, hpc, kind, todo, units>>

\* run_background_loop: "asyncio.set_event_loop(loop); loop.run_forever()",
\* which read the global again
run_background_loop_run ==
    /\ thread_pc = "loop_set"
    /\ running' = running \cup {loop}
    /\ thread_pc' = "run_forever"
    /\ UNCHANGED <<handler_class, mcp_available, http_vars, main_pc, loop,
                   loops_created, loop_sets, queue, hpc, kind, todo, units>>

\* setup_async_environment, called by main after time.sleep(1); whether the
\* import succeeds is mcp_available
setup_async_environment ==
    /\ handler_class = "CloudRunMCPHandler"
    /\ main_pc = "thread_started"
    /\ NewLoop
    /\ main_pc' = "setup_done"
    /\ UNCHANGED <<handler_class, mcp_available, http_vars, thread_pc, running,
                   queue, hpc, kind, todo, units>>

\* main: HTTPServer(...), server.serve_forever()
serve_forever ==
    /\ main_pc = IF handler_class = "CloudRunMCPHandler" THEN "setup_done" ELSE "start"
    /\ main_pc' = "serving"
    /\ UNCHANGED <<handler_class, mcp_available, http_vars, thread_pc, loop,
                   loops_created, loop_sets, running, queue, hpc, kind, todo, units>>

\* mutant: a ThreadingHTTPServer, one thread per connection
ServerFree_threading == TRUE

\* socketserver.BaseServer.serve_forever with HTTPServer: the next connection
\* is accepted only when the handler of the previous one has returned
ServerFree == \A c \in Conns : hpc[c] \in {"none", "queued", "done"}

RECURSIVE SumTodo(_)
SumTodo(n) == IF n = 0 THEN 0 ELSE todo[n] + SumTodo(n - 1)

\* a client connects and sends its request; the kernel queues the connection
Client_connect ==
    /\ main_pc = "serving"
    /\ \E c \in Conns, k \in Kinds(handler_class), t \in 0..2 :
          /\ hpc[c] = "none"
          /\ \A d \in 1..(c - 1) : hpc[d] # "none"
          /\ IF k = "domain"
             THEN t >= 1 /\ Len(units) + SumTodo(MaxConns) + t <= MaxUnits
             ELSE t = 0
          /\ hpc' = [hpc EXCEPT ![c] = "queued"]
          /\ kind' = [kind EXCEPT ![c] = k]
          /\ todo' = [todo EXCEPT ![c] = t]
          /\ queue' = Append(queue, c)
    /\ UNCHANGED <<handler_class, mcp_available, http_vars, main_pc, thread_pc, loop,
                   loops_created, loop_sets, running, units>>

\* serve_forever takes the oldest queued connection and calls its handler
Server_accept ==
    /\ main_pc = "serving"
    /\ queue # <<>>
    /\ ServerFree
    /\ hpc' = [hpc EXCEPT ![Head(queue)] = "handling"]
    /\ queue' = Tail(queue)
    /\ UNCHANGED <<handler_class, mcp_available, http_vars, main_pc, thread_pc, loop,
                   loops_created, loop_sets, running, kind, todo, units>>

\* _handle_health / _handle_health_check: a 200 written at once, no bridge
handle_health ==
    /\ \E c \in Conns :
          /\ hpc[c] = "handling" /\ kind[c] = "health"
          /\ hpc' = [hpc EXCEPT ![c] = "done"]
    /\ UNCHANGED <<handler_class, mcp_available, http_vars, main_pc, thread_pc, loop,
                   loops_created, loop_sets, running, queue, kind, todo, units>>

\* CloudRunMCPHandler._handle_sse_connection: the handler stays in its ping loop
handle_sse_open ==
    /\ \E c \in Conns :
          /\ hpc[c] = "handling" /\ kind[c] = "stream"
          /\ hpc' = [hpc EXCEPT ![c] = "streaming"]
    /\ UNCHANGED <<handler_class, mcp_available, http_vars, main_pc, thread_pc, loop,
                   loops_created, loop_sets, running, queue, kind, todo, units>>

\* the ping loop ends: a write failed, or ping_count reached its limit
handle_sse_close ==
    /\ \E c \in Conns :
          /\ hpc[c] = "streaming"
          /\ hpc' = [hpc EXCEPT ![c] = "done"]
    /\ UNCHANGED <<handler_class, mcp_available, http_vars, main_pc, thread_pc, loop,
                   loops_created, loop_sets, running, queue, kind, todo, units>>

Unit(l, c, st, oc, via) ==
    [loop |-> l, by |-> c, state |-> st, outcome |-> oc, via |-> via,
     timed_out |-> FALSE, delivered |-> FALSE]

\* the unit the handler of connection c submitted last
WaitingOn(c) ==
    CHOOSE u \in 1..Len(units) :
        units[u].by = c /\ \A v \in (u + 1)..Len(units) : units[v].by # c

\* WorkingMCPHandler.run_async, up to the point where the caller blocks
Working_run_async ==
    /\ handler_class = "WorkingMCPHandler"
    /\ Len(units) < MaxUnits
    /\ \E c \in Conns, oc \in DomainOutcomes :
          LET l == IF loop = 0 THEN loops_created + 1 ELSE loop
          IN  /\ hpc[c] = "handling" /\ kind[c] = "domain" /\ todo[c] > 0
              \* get_event_loop
              /\ IF loop = 0 THEN NewLoop
                 ELSE UNCHANGED <<loop, loops_created, loop_sets>>
              /\ IF l \in running
                 THEN \* asyncio.run_coroutine_threadsafe(coro, loop); future.result(timeout=30)
                      /\ units' = Append(units, Unit(l, c, "scheduled", oc, "run_coroutine_threadsafe"))
                      /\ UNCHANGED running
                 ELSE \* loop.run_until_complete(coro)
                      /\ units' = Append(units, Unit(l, c, "running", oc, "run_until_complete"))
                      /\ running' = running \cup {l}
              /\ hpc' = [hpc EXCEPT ![c] = "waiting"]
    /\ UNCHANGED <<handler_class, mcp_available, http_vars, main_pc, thread_pc,
                   queue, kind, todo>>

\* cloud_run_server.run_async_in_thread, up to the point where the caller blocks
run_async_in_thread ==
    /\ handler_class = "CloudRunMCPHandler"
    /\ Len(units) < MaxUnits
    /\ \E c \in Conns, oc \in DomainOutcomes :
          /\ hpc[c] = "handling" /\ kind[c] = "domain" /\ todo[c] > 0
          /\ IF loop = 0
             THEN \* return None
                  /\ todo' = [todo EXCEPT ![c] = @ - 1]
                  /\ UNCHANGED <<units, hpc>>
             ELSE \* asyncio.run_coroutine_threadsafe(coro, loop); future.result(timeout=30)
                  /\ units' = Append(units, Unit(loop, c, "scheduled", oc, "run_coroutine_threadsafe"))
                  /\ hpc' = [hpc EXCEPT ![c] = "waiting"]
                  /\ UNCHANGED todo
    /\ UNCHANGED <<handler_class, mcp_available, http_vars, main_pc, thread_pc, loop,
                   loops_created, loop_sets, running, queue, kind>>

\* a running loop starts a coroutine scheduled on it
loop_runs_unit ==
    /\ \E u \in 1..Len(units) :
          /\ units[u].state = "scheduled"
          /\ units[u].loop \in running
          /\ units' = [units EXCEPT ![u].state = "running"]
    /\ UNCHANGED <<handler_class, mcp_available, http_vars, main_pc, thread_pc, loop,
                   loops_created, loop_sets, running, queue, hpc, kind, todo>>

\* what is left for the caller to do after its submission returned or raised:
\* _get_resource_data / _execute_tool stop at the first failure or empty
\* answer; run_async_in_thread turns every failure into None
TodoAfter(t, oc) ==
    IF handler_class = "WorkingMCPHandler" /\ oc # "value" THEN 0 ELSE t - 1

\* a coroutine ends; its result reaches the caller only if the caller still waits
unit_completes ==
    /\ \E u \in 1..Len(units) :
          LET c == units[u].by
              awaited == hpc[c] = "waiting" /\ WaitingOn(c) = u /\ ~units[u].timed_out
          IN  /\ units[u].state = "running"
              /\ units[u].outcome # "never"
              /\ units' = [units EXCEPT ![u].state = "done", ![u].delivered = awaited]
              /\ running' = IF units[u].via = "run_until_complete"
                            THEN running \ {units[u].loop} ELSE running
              /\ hpc' = IF awaited THEN [hpc EXCEPT ![c] = "handling"] ELSE hpc
              /\ todo' = IF awaited
                         THEN [todo EXCEPT ![c] = TodoAfter(@, units[u].outcome)]
                         ELSE todo
    /\ UNCHANGED <<handler_class, mcp_available, http_vars, main_pc, thread_pc, loop,
                   loops_created, loop_sets, queue, kind>>

\* mutant: the wait that times out cancels the coroutine
OnTimeout_cancel(unit) == [unit EXCEPT !.timed_out = TRUE, !.state = "cancelled"]

\* future.result(timeout=30) raises TimeoutError: the future is left as it is
OnTimeout(unit) == [unit EXCEPT !.timed_out = TRUE]

\* the 30 seconds of future.result(timeout=30) pass before the coroutine ends
wait_times_out ==
    /\ \E c \in Conns :
          /\ hpc[c] = "waiting"
          /\ units[WaitingOn(c)].via = "run_coroutine_threadsafe"
          /\ units[WaitingOn(c)].state # "done"
          /\ units' = [units EXCEPT ![WaitingOn(c)] = OnTimeout(@)]
          /\ hpc' = [hpc EXCEPT ![c] = "handling"]
          /\ todo' = [todo EXCEPT ![c] = TodoAfter(@, "raise")]
    /\ UNCHANGED <<handler_class, mcp_available, http_vars, main_pc, thread_pc, loop,
                   loops_created, loop_sets, running, queue, kind>>

\* the handler has made its submissions, writes its response and returns
handler_returns ==
    /\ \E c \in Conns :
          /\ hpc[c] = "handling" /\ kind[c] = "domain" /\ todo[c] = 0
          /\ hpc' = [hpc EXCEPT ![c] = "done"]
    /\ UNCHANGED <<handler_class, mcp_available, http_vars, main_pc, thread_pc, loop,
                   loops_created, loop_sets, running, queue, kind, todo, units>>

ServerNext ==
    \/ main_start_thread
    \/ run_background_loop_new
    \/ run_background_loop_run
    \/ setup_async_environment
    \/ serve_forever
    \/ Client_connect
    \/ Server_accept
    \/ handle_health
    \/ handle_sse_open
    \/ handle_sse_close
    \/ Working_run_async
    \/ run_async_in_thread
    \/ loop_runs_unit
    \/ unit_completes
    \/ wait_times_out
    \/ handler_returns

ServerSpec == ServerInit /\ [][ServerNext]_vars

\* threads that can take a step take it: the background thread and main get
\* through startup, a running loop starts what is scheduled on it, and a
\* coroutine that can end ends
ServerFairness ==
    /\ WF_vars(run_background_loop_new)
    /\ WF_vars(run_background_loop_run)
    /\ WF_vars(setup_async_environment)
    /\ WF_vars(serve_forever)
    /\ WF_vars(loop_runs_unit)
    /\ WF_vars(unit_completes)

ServerLiveSpec == ServerInit /\ [][ServerNext]_vars /\ ServerFairness

----------------------------------------------------------------------------
(* Vocabulary of the properties *)

Wire == conn.wire
StatusLines == SelectSeq(Wire, LAMBDA x : x.k = "status")
Bodies == SelectSeq(Wire, LAMBDA x : x.k = "body")
\* the status codes the response carries
StatusCodes == {StatusLines[i].code : i \in 1..Len(StatusLines)}

PostMcp == request.verb = "POST" /\ request.path = "/mcp"
\* the body was read and parsed into a JSON object
ObjectBody == PostMcp /\ request.clen = "n" /\ request.body = "object"

ReqMethod == Get(request.json, "method", None)
ReqParams == Get(request.json, "params", PDict(<<>>))
ReqId == IF "id" \in DOMAIN request.json THEN request.json.id ELSE None

IsError(e, code) ==
    /\ "error" \in DOMAIN e
    /\ "result" \notin DOMAIN e
    /\ e.error.code = code

\* the body on the wire is a JSON-RPC envelope
IsEnvelopeBody(b) == "jsonrpc" \in DOMAIN b.body.json_text_of

----------------------------------------------------------------------------
(* Properties *)

\* C1: every envelope a dispatcher returns carries the id of the request, type
\* included (a string stays a string, an integer an integer, null null, an
\* absent id becomes null), on the result branch and on every error branch,
\* and that envelope is the body written to the connection.
C1_IdEchoed ==
    \A i \in 1..Len(envelopes) :
        /\ "id" \in DOMAIN envelopes[i]
        /\ envelopes[i].id = ReqId
        /\ pc = "responded" => Bodies = <<[k |-> "body", body |-> JsonDumps(envelopes[i])]>>

\* an error envelope that echoes the string id "1", which is not the integer 1
C1_Witness ==
    /\ pc = "responded"
    /\ Len(envelopes) = 1
    /\ IsError(envelopes[1], -32603)
    /\ Len(bridge_calls) = 1
    /\ "id" \in DOMAIN request.json
    /\ ReqId = JStr("1")
    /\ envelopes[1].id = JStr("1")
    /\ envelopes[1].id # JInt("1")

UnregisteredMethod ==
    /\ "method" \in DOMAIN request.json
    /\ ReqMethod.text \notin RecognizedMethods

\* C3: for all requests with an unregistered method name, the response
\* contains error.code = -32601 and no "result" key.
C3_UnregisteredIsMethodNotFound ==
    (pc = "responded" /\ entered /\ ObjectBody /\ UnregisteredMethod) =>
        /\ Len(envelopes) = 1
        /\ IsError(envelopes[1], -32601)

\* C4: with the domain available, a request for one of the seven recognized
\* methods is never answered with MethodNotFound (-32601).
C4_RecognizedMethodsResolve ==
    (pc = "responded" /\ entered /\ ObjectBody /\ mcp_available
        /\ "method" \in DOMAIN request.json
        /\ ReqMethod.text \in RecognizedMethods) =>
        \A i \in 1..Len(envelopes) : ~IsError(envelopes[i], -32601)

\* the required parameter of the method is absent, or present and empty
MissingRequired(method, key) ==
    /\ ReqMethod = JStr(method)
    /\ ReqParams.kind = "dict"
    /\ \/ key \notin DOMAIN ReqParams.d
       \/ key = "uri" /\ ReqParams.d[key] = UStr(<<"">>)
       \/ key = "name" /\ ReqParams.d[key] = JStr("")

\* C5: resources/read without a uri, tools/call without a name and prompts/get
\* without a name each return -32602 with no result and make no domain call;
\* the same when the parameter is present but empty.  (Stated with the domain
\* available.)
C5_MissingParamIsInvalidParams ==
    (pc = "responded" /\ entered /\ ObjectBody /\ mcp_available
        /\ \/ MissingRequired("resources/read", "uri")
           \/ MissingRequired("tools/call", "name")
           \/ MissingRequired("prompts/get", "name")) =>
        /\ Len(envelopes) = 1
        /\ IsError(envelopes[1], -32602)
        /\ bridge_calls = <<>>

\* C6: a POST /mcp whose body is not valid JSON is answered with a JSON-RPC
\* envelope whose error code is -32700 and whose id is null, and the
\* dispatcher is not entered.  (Stated for the handlers the claim cites,
\* with the domain available.)
C6_MalformedJsonIsParseError ==
    (pc = "responded" /\ PostMcp /\ request.clen = "n" /\ request.body = "invalid_json"
        /\ mcp_available /\ handler_class \in {"WorkingMCPHandler", "MCPHandler"}) =>
        /\ ~entered
        /\ Len(Bodies) = 1
        /\ IsEnvelopeBody(Bodies[1])
        /\ IsError(Bodies[1].body.json_text_of, -32700)
        /\ Bodies[1].body.json_text_of.id = None

\* C7: a POST /mcp with Content-Length 0, or with no Content-Length header, is
\* answered with status 400 and a JSON error body; the dispatcher is not
\* invoked and no 200 is written.  (Stated for the handlers the claim cites,
\* with the domain available.)
C7_EmptyBodyIs400 ==
    (pc = "responded" /\ PostMcp /\ request.clen \in {"absent", "0"} /\ mcp_available
        /\ handler_class \in {"WorkingMCPHandler", "CloudRunMCPHandler", "MCPHandler"}) =>
        /\ StatusCodes = {400}
        /\ Len(Bodies) = 1
        /\ "error" \in DOMAIN Bodies[1].body.json_text_of
        /\ ~entered

\* the handlers that have a JSON-RPC dispatcher behind POST /mcp
DispatchingHandlers == HandlerClasses \ {"MinimalHandler"}

\* C8: for every POST /mcp whose body parses as a JSON object the HTTP status
\* is 200, whether the envelope carries a result or an error; with the domain
\* available initialize, resources/list and tools/list return result.serverInfo,
\* result.resources and result.tools.
C8_ObjectBodyIs200 ==
    (pc = "responded" /\ ObjectBody /\ handler_class \in DispatchingHandlers) =>
        /\ StatusCodes = {200}
        /\ Len(envelopes) = 1
        /\ (mcp_available /\ ReqMethod = JStr("initialize")) =>
                /\ "result" \in DOMAIN envelopes[1]
                /\ "serverInfo" \in DOMAIN envelopes[1].result
        /\ (mcp_available /\ ReqMethod = JStr("resources/list")) =>
                /\ "result" \in DOMAIN envelopes[1]
                /\ "resources" \in DOMAIN envelopes[1].result
        /\ (mcp_available /\ ReqMethod = JStr("tools/list")) =>
                /\ "result" \in DOMAIN envelopes[1]
                /\ "tools" \in DOMAIN envelopes[1].result

\* the last submitted coroutine raised, or never completed
DomainCallFailed ==
    /\ Len(bridge_calls) > 0
    /\ bridge_calls[Len(bridge_calls)].outcome \in {"raise", "never"}

\* resources/read of fpl://fixtures/gameweek/<x> with <x> no integer, in the
\* one handler that parses it
BadGameweekSegment ==
    /\ handler_class = "WorkingMCPHandler" /\ mcp_available
    /\ ReqMethod = JStr("resources/read")
    /\ ReqParams.kind = "dict"
    /\ "uri" \in DOMAIN ReqParams.d
    /\ ReqParams.d.uri.type = "str"
    /\ Len(ReqParams.d.uri.segs) = 5
    /\ SubSeq(ReqParams.d.uri.segs, 1, 4) = <<"fpl:", "", "fixtures", "gameweek">>
    /\ ReqParams.d.uri.segs[5] \notin {ToString(i) : i \in 0..MaxGameweek}

\* params is not a mapping and the resolved method reads it
ParamsNotMapping ==
    /\ ReqParams.kind # "dict"
    /\ \/ /\ handler_class = "WorkingMCPHandler" /\ mcp_available
          /\ ReqMethod \in {JStr("resources/read"), JStr("tools/call")}
       \/ /\ handler_class = "MCPTransportHandler"
          /\ ReqMethod \in {JStr("resources/read"), JStr("tools/call"), JStr("prompts/get")}

C10_InternalErrorHasData ==
    \A i \in 1..Len(envelopes) :
        IsError(envelopes[i], -32603) => "data" \in DOMAIN envelopes[i].error


\* resources/read of a well-formed URI that matches none of the shapes of
\* _get_resource_data
UnknownUriRead ==
    /\ ReqMethod = JStr("resources/read")
    /\ ReqParams.kind = "dict"
    /\ "uri" \in DOMAIN ReqParams.d
    /\ ReqParams.d.uri = UStr(<<"fpl:", "", "nonsense">>)

\* C11: resources/read with a well-formed but unknown URI returns HTTP 200 and
\* a result (no error) whose contents[0].text encodes a structured
\* unknown-resource value, and submits nothing to the bridge.  (Stated with
\* the domain available.)
C11_UnknownUriIsStructuredResult ==
    (pc = "responded" /\ ObjectBody /\ mcp_available /\ UnknownUriRead
        /\ handler_class \in DispatchingHandlers) =>
        /\ StatusCodes = {200}
        /\ Len(envelopes) = 1
        /\ "result" \in DOMAIN envelopes[1]
        /\ "error" \notin DOMAIN envelopes[1]
        /\ "contents" \in DOMAIN envelopes[1].result
        /\ envelopes[1].result.contents[1].text =
              JsonDumps([error |-> <<"Unknown resource URI: ", ReqParams.d.uri>>])
        /\ bridge_calls = <<>>

\* tools/call with a non-empty name that no branch of _execute_tool knows
UnknownToolCall ==
    /\ ReqMethod = JStr("tools/call")
    /\ ReqParams.kind = "dict"
    /\ "name" \in DOMAIN ReqParams.d
    /\ ReqParams.d.name = JStr("no_such_tool")

\* C12: tools/call with a non-empty name that is not a known tool yields a
\* result whose content text encodes {error: "Unknown tool: <name>"}, not a
\* protocol error, and submits nothing to the bridge.  (Stated with the
\* domain available.)
C12_UnknownToolIsStructuredResult ==
    (pc = "responded" /\ ObjectBody /\ mcp_available /\ UnknownToolCall
        /\ handler_class \in DispatchingHandlers) =>
        /\ Len(envelopes) = 1
        /\ "result" \in DOMAIN envelopes[1]
        /\ "error" \notin DOMAIN envelopes[1]
        /\ "content" \in DOMAIN envelopes[1].result
        /\ envelopes[1].result.content[1].text =
              JsonDumps([error |-> <<"Unknown tool: ", ReqParams.d.name>>])
        /\ bridge_calls = <<>>

\* the methods that need the domain layer
DomainMethods == {JStr("resources/read"), JStr("tools/call")}

\* C13: when the domain layer failed to initialize, every method that needs
\* it is answered with the Unavailable error (-32000), never with another
\* code, and no domain call is attempted.  (Stated for the two handlers the
\* claim cites.)
C13_UnavailableIsUniform ==
    (pc = "responded" /\ ObjectBody /\ ~mcp_available /\ ReqMethod \in DomainMethods
        /\ handler_class \in {"WorkingMCPHandler", "CloudRunMCPHandler"}) =>
        /\ Len(envelopes) = 1
        /\ IsError(envelopes[1], -32000)
        /\ bridge_calls = <<>>


\* C14: on no path does the caller of run_async wait indefinitely on a
\* coroutine that never completes: the handler is never left blocked in the
\* bridge.
C14_NoIndefiniteWait == pc # "blocked"


\* C15: the loop the bridge owns is created exactly once per process
\* lifetime: at most one loop object is ever created, and the reference used
\* for submissions is assigned at most once.
C15_LoopCreatedOnce ==
    /\ loops_created <= 1
    /\ loop_sets <= 1

\* the coroutines a loop is executing
Executing == {u \in 1..Len(units) : units[u].state = "running"}

\* C16: the domain work of resources/read and tools/call (WorkingMCPHandler)
\* runs on the one loop of the bridge, is started only by run_async, and no
\* two coroutines are ever executing at the same time, however many
\* connections are waiting or being served.
C16_DomainWorkSerialized ==
    handler_class = "WorkingMCPHandler" =>
        /\ Cardinality(Executing) <= 1
        /\ loops_created <= 1
        /\ \A u \in 1..Len(units) :
              /\ units[u].loop = loop
              /\ units[u].state = "running" => units[u].loop \in running
              /\ hpc[units[u].by] = "waiting" \/ units[u].state = "done"

\* a coroutine is executing for one connection while another connection,
\* which also wants domain work, waits in the listen queue
C16_Witness ==
    /\ handler_class = "WorkingMCPHandler"
    /\ Len(units) = 2
    /\ units[1].state = "done" /\ units[1].by = 1
    /\ units[2].state = "running" /\ units[2].by = 2
    /\ hpc[1] = "done"

\* C17: a submission that timed out is not cancelled: the coroutine may still
\* run to completion, and its late result is delivered to no request.
C17_TimeoutDoesNotCancel ==
    \A u \in 1..Len(units) :
        units[u].timed_out =>
            /\ units[u].state \in {"scheduled", "running", "done"}
            /\ ~units[u].delivered
            /\ hpc[units[u].by] # "waiting" \/ WaitingOn(units[u].by) # u

\* a coroutine completed after its caller had given up on it
C17_Witness ==
    \E u \in 1..Len(units) :
        /\ units[u].timed_out
        /\ units[u].state = "done"
        /\ ~units[u].delivered
        /\ hpc[units[u].by] = "done"

\* C18: a GET /health is answered while another connection is blocked in a
\* slow domain call or holds an open stream: whenever a health request waits
\* in the listen queue, the server is free to take it.
C18_HealthNeverWaits ==
    \A c \in Conns :
        (hpc[c] = "queued" /\ kind[c] = "health" /\ Head(queue) = c
            /\ \E d \in Conns : hpc[d] \in {"waiting", "streaming"})
        => ENABLED Server_accept

\* the events of the session of the given type, in the order they were sent
EventsOfType(t) == SelectSeq(session, LAMBDA x : x.k = "event" /\ x.data.type = t)

\* C19: on every GET /mcp stream session exactly one connection event is
\* sent, it carries the server identity and the domain-availability flag, and
\* it is sent before any ping event of that session.
C19_OneConnectionEventFirst ==
    (request.verb = "GET" /\ request.path = "/mcp" /\ session # <<>>) =>
        /\ session[1].k = "event"
        /\ session[1].data.type = "connection"
        /\ "server" \in DOMAIN session[1].data
        /\ "mcp_available" \in DOMAIN session[1].data
        /\ Len(EventsOfType("connection")) = 1

\* C20: within one stream session every ping event carries a counter, the
\* first ping of the session carries zero and each later ping carries the
\* counter of the ping before it plus one.
C20_PingCounterIncreases ==
    LET pings == EventsOfType("ping")
    IN  \A i \in 1..Len(pings) :
            /\ "count" \in DOMAIN pings[i].data
            /\ pings[i].data.count = i - 1

\* C21: every stream session terminates: the handler of a session that is
\* streaming returns, on the first write that fails or else once the maximum
\* ping count is reached, and no session sends more than PingLimit pings.
C21_StreamTerminates ==
    /\ (pc \in {"streaming", "sleeping"}) ~> (pc = "responded")
    /\ [](Len(EventsOfType("ping")) <= PingLimit)

\* the response carries the header with the value
HasHeader(name, value) ==
    \E i \in 1..Len(Wire) :
        Wire[i].k = "header" /\ Wire[i].name = name /\ Wire[i].value = value

\* C22: an OPTIONS request to any path is answered with status 200 and no
\* body, and every response of every route carries the permissive
\* cross-origin headers: Allow-Origin "*", Allow-Headers "Content-Type,
\* Authorization" and Allow-Methods "GET, POST, OPTIONS".
C22_PreflightAndCorsEverywhere ==
    /\ (request.verb = "OPTIONS" /\ pc = "responded") =>
            StatusCodes = {200} /\ Bodies = <<>>
    /\ pc \in {"responded", "streaming", "sleeping"} =>
            /\ HasHeader("Access-Control-Allow-Origin", "*")
            /\ HasHeader("Access-Control-Allow-Headers", "Content-Type, Authorization")
            /\ HasHeader("Access-Control-Allow-Methods", "GET, POST, OPTIONS")

\* the request is for none of the routes GET / or /health, GET
\* /mcp/capabilities, GET /mcp, POST /mcp, OPTIONS any path
NotARoute ==
    \/ request.verb = "GET" /\ request.path \notin {"/", "/health", "/mcp/capabilities", "/mcp"}
    \/ request.verb = "POST" /\ request.path # "/mcp"

\* C23: a request whose method and path are none of the defined routes is
\* answered with status 404 and one JSON body, an error object that lists
\* the known endpoints.
C23_UnknownRouteIsStructured404 ==
    (NotARoute /\ pc = "responded") =>
        /\ StatusCodes = {404}
        /\ Len(Bodies) = 1
        /\ "error" \in DOMAIN Bodies[1].body.json_text_of
        /\ "available_endpoints" \in DOMAIN Bodies[1].body.json_text_of.error

\* resources/read of "fpl://static/teams", served while the domain is loaded
\* and with every domain call returning its value
TeamsRead ==
    /\ ObjectBody
    /\ mcp_available
    /\ ReqMethod = JStr("resources/read")
    /\ ReqParams = PDict([uri |-> UStr(Segs_static_teams)])
    /\ pc = "responded"
    /\ \A i \in 1..Len(bridge_calls) : bridge_calls[i].outcome = "value"

\* C24: resources/read with uri "fpl://static/teams" returns a result whose
\* contents[0].uri is the requested uri and whose contents[0].text is the
\* JSON text of what the domain's teams provider returned, not a placeholder.
C24_TeamsReadReturnsTeams ==
    TeamsRead =>
        /\ Len(envelopes) = 1
        /\ "result" \in DOMAIN envelopes[1]
        /\ "contents" \in DOMAIN envelopes[1].result
        /\ Len(envelopes[1].result.contents) = 1
        /\ envelopes[1].result.contents[1].uri = UStr(Segs_static_teams)
        /\ envelopes[1].result.contents[1].text = JsonDumps(Data("teams.get_teams_resource"))

\* the URIs _get_resource_data serves without a parameter
WellKnownUris ==
    {"fpl://static/players", "fpl://static/teams", "fpl://gameweeks/current",
     "fpl://gameweeks/all", "fpl://gameweeks/blank", "fpl://gameweeks/double",
     "fpl://fixtures"}

ResourcesListed ==
    /\ ObjectBody
    /\ mcp_available
    /\ ReqMethod = JStr("resources/list")
    /\ pc = "responded"

\* C25: resources/list returns an enumeration that contains every
\* parameterless well-known URI, and producing it submits no work to the
\* bridge and makes no domain call.
C25_ResourcesListComplete ==
    ResourcesListed =>
        /\ Len(envelopes) = 1
        /\ "result" \in DOMAIN envelopes[1]
        /\ LET listed == envelopes[1].result.resources
           IN  WellKnownUris \subseteq {listed[i] : i \in 1..Len(listed)}
        /\ bridge_calls = <<>>

\* a handler instance of a process that has served no request yet
FreshBridge == [loop |-> "None", running |-> FALSE, calls |-> <<>>]

\* the outcomes the domain gave this request's calls, in order
SameDomain ==
    [i \in 1..2 |-> IF i <= Len(bridge_calls) THEN bridge_calls[i].outcome ELSE "value"]

\* what the dispatcher of a process that has served nothing returns for
\* this request, the domain answering as it did
Replay == Working_process_mcp_request(request.json, mcp_available, SameDomain, FreshBridge)

IsPing(x) == x.k = "event" /\ x.data.type = "ping"

\* C27: in a stream session every ping event is preceded by a sleep of the
\* fixed interval: the handler sleeps one interval between the connection
\* event and the first ping, and exactly once between two consecutive pings.
C27_SleepBeforeEveryPing ==
    \A i \in 1..Len(session) :
        /\ IsPing(session[i]) =>
              i > 1 /\ session[i - 1].k = "sleep" /\ session[i - 1].secs = PingInterval
        /\ session[i].k = "sleep" => i > 1 /\ session[i - 1].k = "event"

\* cloud_run_server.py has started: the background thread is in
\* run_forever and main is past setup_async_environment
CloudRunStarted ==
    /\ handler_class = "CloudRunMCPHandler"
    /\ main_pc = "serving"
    /\ thread_pc = "run_forever"

\* C28: in cloud_run_server.py, after startup, the loop that submissions
\* target is the loop the background thread is running, and a coroutine
\* submitted through run_async_in_thread that completes without failure is
\* eventually executed to its end on that loop.
C28_SubmissionsRunOnBackgroundLoop ==
    /\ [](CloudRunStarted => loop \in running)
    /\ \A u \in 1..MaxUnits :
          []((handler_class = "CloudRunMCPHandler" /\ u <= Len(units)
                 /\ units[u].outcome = "value")
              => <>(u <= Len(units) /\ units[u].state = "done"
                       /\ units[u].loop \in running))

\* C29: in every response written by CloudRunMCPHandler, MCPTransportHandler
\* and SimpleCloudRunHandler the status line is the first output: no header
\* is buffered or written before send_response for the same request.
C29_StatusLineFirst ==
    handler_class \in {"CloudRunMCPHandler", "MCPTransportHandler", "SimpleCloudRunHandler"} =>
        /\ Wire # <<>> => Wire[1].k = "status"
        /\ conn.buf # <<>> => conn.buf[1].k = "status"

\* the status lines send_response produced for this request, written or
\* still in the buffer
StartedResponses ==
    Len(StatusLines) + Len(SelectSeq(conn.buf, LAMBDA x : x.k = "status"))

\* C30: for every POST /mcp request the handler starts at most one HTTP
\* response (one status line) on the connection, also when writing the body
\* fails after the 200 status and headers were sent: the error path starts
\* no second response for the same request.
C30_OneResponsePerPost ==
    PostMcp => StartedResponses <= 1

====
